---- MODULE Spec2Model ----
(***************************************************************************)
(* A model of the engine: the identity allocator of core/instance.go, the  *)
(* system registry and frame loop of app/app.go, and                       *)
(* the camera render pipeline of scene/camera.go: the pass                 *)
(* sequence of Camera.Render, the ping-pong protocol of the effect chain   *)
(* (startEffectPass / EffectPass / endEffectPass) and the drawable         *)
(* classification caches rebuilt by OnSceneGraphUpdate.                    *)
(*                                                                         *)
(* The content of a color buffer is a sequence of operations: the first    *)
(* element names where the image came from (what the buffer held when the  *)
(* frame started, or a clear), every later element names a draw that was   *)
(* applied on top of it or a full-screen pass that computed it from the    *)
(* buffer it read.                                                         *)
(***************************************************************************)
EXTENDS Integers, Sequences, FiniteSets, TLC

\* ---------------------------------------------------------------- bounds
MaxEffects == 3
MaxSubPasses == 2
MaxComponents == 3
MaxThreads == 2
MaxObjects == 3
MaxUserSystems == 4

\* ----------------------------------------------------------------- enums
RenderPathForward == "Forward"
RenderPathDeferred == "Deferred"
RenderPaths == {RenderPathForward, RenderPathDeferred}

CameraTextureLDR0 == "LDR0"
CameraTextureLDR1 == "LDR1"
CameraTextureHDR0 == "HDR0"
CameraTextureHDR1 == "HDR1"
CameraTextureDepth == "Depth"
CameraTextureNormals == "Normals"

ClearModeSkybox == "Skybox"
ClearModeColor == "Color"
ClearModeDepth == "DepthOnly"
ClearModeNothing == "Nothing"
ClearModes == {ClearModeSkybox, ClearModeColor, ClearModeDepth, ClearModeNothing}

EffectTypeHDR == "EffectTypeHDR"
EffectTypeLDR == "EffectTypeLDR"
EffectTypeTonemapper == "EffectTypeTonemapper"
EffectTypes == {EffectTypeHDR, EffectTypeLDR, EffectTypeTonemapper}

COLOR_ATTACHMENT0 == "COLOR_ATTACHMENT0"
COLOR_ATTACHMENT1 == "COLOR_ATTACHMENT1"
COLOR_ATTACHMENT2 == "COLOR_ATTACHMENT2"
COLOR_ATTACHMENT3 == "COLOR_ATTACHMENT3"
COLOR_ATTACHMENT4 == "COLOR_ATTACHMENT4"
DEPTH_ATTACHMENT == "DEPTH_ATTACHMENT"

\* A texture unit 0 binding that is none of the camera's own textures
\* (nothing bound yet, a skybox cubemap, a G-buffer attachment, a material).
OtherTexture == "other"

\* The colors the model distinguishes.
ColorBlack == <<0, 0, 0, 1>>
GLInitialClearColor == <<0, 0, 0, 0>>

VARIABLES
    hdr,               \* Camera.hdr
    renderPath,        \* Camera.renderPath
    deferredShader,    \* Camera.shaders[CameraShaderDeferred] # nil
    clearMode,         \* Camera.clearMode
    clearColor,        \* Camera.clearColor
    skybox,            \* GameObject().Environment().Skybox # nil
    effects,           \* Camera.effects: sequence of [type, n]
    scene,             \* GameObject().Scene().Components()
    forwardCache,      \* Camera.forwardCache
    deferredCache,     \* Camera.deferredCache
    windowRes,         \* window.Resolution()
    windowResized,     \* input.WindowResized()
    aspectRatio,       \* Camera.aspectRatio
    fbSize,            \* size of Camera.framebuffer
    gbSize,            \* size of Camera.gbuffer
    projectionMatrix,  \* Camera.projectionMatrix
    activeRenderPath,  \* Camera.activeRenderPath
    effectActiveType,  \* Camera.effectActiveType
    effectPass,        \* Camera.effectPass
    drawBuf,           \* draw buffer selected on Camera.framebuffer
    readTex,           \* texture bound to texture unit 0
    tex,               \* content of every texture of Camera.textures
    glClearColor,      \* the GL clear color
    depthMask,         \* gl.DepthMask state
    depthTest,         \* gl.DEPTH_TEST enabled
    pc,                \* position of the render thread
    fx,                \* index of the effect the chain executor is at
    passes,            \* passes entered so far in the current frame
    drawCalls,         \* Draw calls made on drawables in the current frame
    lastDraw,          \* the most recent full-screen pass of the effect chain
    lastEnd,           \* what the most recent endEffectPass did
    displayed          \* the image endRender blitted to the display in this frame

camVars == <<hdr, renderPath, deferredShader, clearMode, clearColor, skybox, effects>>
sceneVars == <<scene, forwardCache, deferredCache>>
windowVars == <<windowRes, windowResized, aspectRatio, fbSize, gbSize, projectionMatrix>>
glVars == <<drawBuf, readTex, tex, glClearColor, depthMask, depthTest>>
frameVars == <<activeRenderPath, effectActiveType, effectPass, pc, fx, passes,
               drawCalls, lastDraw, lastEnd, displayed>>
cameraVars == <<camVars, sceneVars, windowVars, glVars, frameVars>>

VARIABLES
    objects,           \* InstanceSystem.objects: the table, ID -> object
    next,              \* InstanceSystem.next: the last ID handed out (int32)
    mu,                \* InstanceSystem.mu: the thread holding it, 0 when free
    objID,             \* the ID field of each object (Object.ID / SetID)
    ipc,               \* position of each thread in its call on the allocator
    arg,               \* the argument of each thread's call: an object or an ID
    local,             \* Assign's local variable id, per thread
    ret                \* what the call each thread is in returns

instVars == <<objects, next, mu, objID, ipc, arg, local, ret>>

VARIABLES
    systems,           \* App.systems
    running,           \* App.running
    apc,               \* position of the main goroutine in Setup, Run, Teardown
    sigpc,             \* the signal-handler goroutine: none, waiting, done
    shouldClose,       \* what window.ShouldClose() reports
    loops,             \* Run's local variable loops
    log,               \* the calls the current loop iteration has made
    inFrame,           \* a loop iteration has started and not yet completed
    quitAt,            \* where the frame loop was when Quit was called
    lateFrame,         \* a loop iteration has started after Quit was called
    setupLog,          \* the systems Setup was called on, in call order
    teardownLog,       \* the systems Teardown was called on, in call order
    si,                \* loop index of Setup and Teardown
    appErr             \* the error returned or panic raised last

regVars == <<systems, setupLog, teardownLog, si, appErr>>
runVars == <<running, sigpc, shouldClose, loops, log, inFrame, quitAt, lateFrame>>
appVars == <<regVars, runVars, apc>>

\* The variables of the two systems, which no camera operation touches.
sysVars == <<instVars, appVars>>

vars == <<cameraVars, sysVars>>

\* ------------------------------------------------------- render targets
\* The textures setupPipeline creates.
Textures(h) ==
    {CameraTextureLDR0, CameraTextureLDR1, CameraTextureDepth, CameraTextureNormals}
        \cup (IF h THEN {CameraTextureHDR0, CameraTextureHDR1} ELSE {})

\* The texture setupPipeline attaches to each attachment point of the framebuffer.
AttachmentTexture(a) ==
    CASE a = COLOR_ATTACHMENT0 -> CameraTextureLDR0
      [] a = COLOR_ATTACHMENT2 -> CameraTextureLDR1
      [] a = COLOR_ATTACHMENT4 -> CameraTextureNormals
      [] a = DEPTH_ATTACHMENT -> CameraTextureDepth
      [] a = COLOR_ATTACHMENT1 -> CameraTextureHDR0
      [] a = COLOR_ATTACHMENT3 -> CameraTextureHDR1

\* The attachment points that exist on the framebuffer.
Attachments(h) ==
    {COLOR_ATTACHMENT0, COLOR_ATTACHMENT2, COLOR_ATTACHMENT4, DEPTH_ATTACHMENT}
        \cup (IF h THEN {COLOR_ATTACHMENT1, COLOR_ATTACHMENT3} ELSE {})

\* What a buffer holds when a frame starts: whatever the previous frames left.
Prev(t) == << <<"prev", t>> >>

\* A draw that samples texture r and writes attachment a: the written buffer
\* holds op applied to what was read. Sampling the buffer that is being
\* written is a feedback loop, whose result GL leaves undefined; a draw with
\* no camera texture bound or into a missing attachment produces nothing the
\* chain can use.
FullScreenPass(t, r, a, ops) ==
    IF a \notin Attachments(hdr)
    THEN t
    ELSE LET w == AttachmentTexture(a)
         IN IF r \notin DOMAIN t
            THEN [t EXCEPT ![w] = << <<"unbound">> >> \o ops]
            ELSE IF r = w
                 THEN [t EXCEPT ![w] = << <<"undefined">> >> \o ops]
                 ELSE [t EXCEPT ![w] = t[r] \o ops]

\* Draws of scene geometry on top of what attachment a holds; they write the
\* depth attachment too while depth writes are enabled.
DrawOver(t, a, ops, mask) ==
    IF a \notin Attachments(hdr) THEN t
    ELSE [t EXCEPT ![AttachmentTexture(a)] = @ \o ops,
                   ![CameraTextureDepth] = IF mask THEN @ \o ops ELSE @]

\* Framebuffer.ClearBuffers: clears the selected draw buffer to the GL clear
\* color and the depth attachment.
ClearBuffers(t, a, color) ==
    IF a \notin Attachments(hdr) THEN t
    ELSE [t EXCEPT ![AttachmentTexture(a)] = << <<"clear", color>> >>,
                   ![CameraTextureDepth] = << <<"clear", "depth">> >>]

\* Framebuffer.ClearBufferFlags(gl.DEPTH_BUFFER_BIT).
ClearDepth(t) == [t EXCEPT ![CameraTextureDepth] = << <<"clear", "depth">> >>]

\* ------------------------------------------------------------ the scene
\* The components a scene can hold. A component is a Drawable or not, and a
\* Drawable reports SupportsDeferred or not; both are fixed per component.
Components == 1..MaxComponents
IsDrawable(c) == c % 3 # 0
SupportsDeferred(c) == c % 3 = 1

\* OnSceneGraphUpdate, first half: the Drawables among the components, in order.
DrawablesOf(components) == SelectSeq(components, IsDrawable)

\* OnSceneGraphUpdate, second half: the two caches for a render path.
ForwardOf(path, drawables) ==
    IF path = RenderPathForward
    THEN drawables
    ELSE SelectSeq(drawables, LAMBDA d : ~SupportsDeferred(d))

\* DeferredOf filling the deferred cache on every render path.
DeferredOfAnyPath(path, drawables) ==
    SelectSeq(drawables, LAMBDA d : SupportsDeferred(d))

DeferredOf(path, drawables) ==
    IF path = RenderPathForward
    THEN <<>>
    ELSE SelectSeq(drawables, LAMBDA d : SupportsDeferred(d))

\* ------------------------------------------------------ the effect chain
\* An effect: its declared Type() and the number of EffectPass calls its
\* Render makes.
EffectDescs == [type : EffectTypes, n : 0..MaxSubPasses]

\* renderEffects: the active domain the chain starts in.
InitialActive(h) == IF h THEN EffectTypeHDR ELSE EffectTypeLDR

\* LoopType switching to the Tonemapper domain on a camera of either kind.
LoopTypeAnyCamera(h, ty, active) ==
    IF ty = EffectTypeTonemapper THEN EffectTypeTonemapper ELSE active

\* renderEffects: the active domain while an effect of type ty runs.
LoopType(h, ty, active) ==
    IF h /\ ty = EffectTypeTonemapper THEN EffectTypeTonemapper ELSE active

\* ActiveAfter without the switch to LDR behind the Tonemapper.
ActiveAfterUnchanged(h, ty, active) == active

\* renderEffects: the active domain after an effect of type ty has ended.
ActiveAfter(h, ty, active) ==
    IF h /\ ty = EffectTypeTonemapper THEN EffectTypeLDR ELSE active

\* StartEffectPassRead binding the secondary HDR buffer for the Tonemapper.
StartEffectPassReadSecondary(active, r) ==
    IF active = EffectTypeTonemapper THEN CameraTextureHDR1 ELSE r

\* startEffectPass: the texture bound and the draw buffer selected.
StartEffectPassRead(active, r) ==
    IF active = EffectTypeTonemapper THEN CameraTextureHDR0 ELSE r

StartEffectPassDraw(active, d) ==
    IF active = EffectTypeTonemapper THEN COLOR_ATTACHMENT0 ELSE d

\* EffectPass: the texture bound and the draw buffer selected.
EffectPassRead(active, pass, r) ==
    IF active = EffectTypeHDR
    THEN (IF pass % 2 = 1 THEN CameraTextureHDR1 ELSE CameraTextureHDR0)
    ELSE IF active = EffectTypeLDR
         THEN (IF pass % 2 = 1 THEN CameraTextureLDR1 ELSE CameraTextureLDR0)
         ELSE r

\* EffectPassDraw with the draw buffers of the HDR domain not alternating.
EffectPassDrawAliased(active, pass, d) ==
    IF active = EffectTypeHDR
    THEN COLOR_ATTACHMENT3
    ELSE IF active = EffectTypeLDR
         THEN (IF pass % 2 = 1 THEN COLOR_ATTACHMENT0 ELSE COLOR_ATTACHMENT2)
         ELSE d

EffectPassDraw(active, pass, d) ==
    IF active = EffectTypeHDR
    THEN (IF pass % 2 = 1 THEN COLOR_ATTACHMENT1 ELSE COLOR_ATTACHMENT3)
    ELSE IF active = EffectTypeLDR
         THEN (IF pass % 2 = 1 THEN COLOR_ATTACHMENT0 ELSE COLOR_ATTACHMENT2)
         ELSE d

\* endEffectPass: the draw buffer restored, whether the copy pass runs, and
\* the texture the copy pass reads.
EndEffectPassDraw(h) == IF h THEN COLOR_ATTACHMENT1 ELSE COLOR_ATTACHMENT0

EndEffectPassCopies(active, pass) ==
    /\ active # EffectTypeTonemapper
    /\ pass % 2 # 1

\* EndEffectPassRead choosing the buffer by the camera's HDR flag.
EndEffectPassReadByCamera(active) ==
    IF hdr THEN CameraTextureHDR1 ELSE CameraTextureLDR1

EndEffectPassRead(active) ==
    IF active = EffectTypeHDR THEN CameraTextureHDR1 ELSE CameraTextureLDR1

\* ------------------------------------------------------------- Render
\* RenderBody with the forward pass ahead of the deferred pass.
RenderBodyForwardFirst ==
    <<"startRender", "renderForward", "renderDeferred", "renderEffects", "endRender">>

\* The calls of Camera.Render, in order.
RenderBody == <<"startRender", "renderDeferred", "renderForward", "renderEffects", "endRender">>

\* Where the render thread is after call f of Render has returned.
After(f) ==
    LET i == CHOOSE k \in 1..Len(RenderBody) : RenderBody[k] = f
    IN IF i < Len(RenderBody) THEN RenderBody[i + 1] ELSE "idle"

NoDraw == [kind |-> "none"]
NoEnd == [fx |-> 0]


\* ------------------------------------------------------------ the window
Resolutions == {<<4, 3>>, <<16, 9>>}

\* window.AspectRatio(): width over height, kept as the fraction.
WindowAspectRatio(res) == <<res[1], res[2]>>

\* Camera.orthographic is never set.
orthographic == FALSE

\* UpdateMatrices: the projection matrix, as the call that computes it.
ProjectionOf(ortho, res, aspect) ==
    IF ortho
    THEN <<"Ortho2D", 0, res[1], res[2], 0>>
    ELSE <<"Perspective", "fov", aspect, "nearClip", "farClip">>

\* ------------------------------------------------------------------ Init
\* NewCamera(renderPath, hdr) followed by setupPipeline and UpdateMatrices.
NewCamera ==
    /\ hdr \in BOOLEAN
    /\ renderPath \in RenderPaths
    /\ deferredShader \in (IF renderPath = RenderPathDeferred THEN BOOLEAN ELSE {FALSE})
    /\ clearMode = ClearModeSkybox
    /\ clearColor = ColorBlack
    /\ skybox \in BOOLEAN
    /\ forwardCache = <<>>
    /\ deferredCache = <<>>
    /\ windowRes \in Resolutions
    /\ windowResized = FALSE
    /\ aspectRatio = WindowAspectRatio(windowRes)
    /\ fbSize = windowRes
    /\ gbSize = IF renderPath = RenderPathDeferred THEN windowRes ELSE <<>>
    /\ projectionMatrix = ProjectionOf(orthographic, windowRes, aspectRatio)
    /\ activeRenderPath = RenderPathForward
    /\ effectActiveType \in EffectTypes
    /\ effectPass = 0
    /\ drawBuf = COLOR_ATTACHMENT0
    /\ readTex = OtherTexture
    /\ tex = [t \in Textures(hdr) |-> Prev(t)]
    /\ glClearColor = GLInitialClearColor
    /\ depthMask = TRUE
    /\ depthTest = TRUE
    /\ pc = "idle"
    /\ fx = 0
    /\ passes = <<>>
    /\ drawCalls = <<>>
    /\ lastDraw = NoDraw
    /\ lastEnd = NoEnd
    /\ displayed = <<>>

\* ------------------------------------------------------- frame actions
\* The names of the buffer contents and the record of the frame start afresh.
NewFrame ==
    /\ passes' = <<>>
    /\ drawCalls' = <<>>
    /\ lastDraw' = NoDraw
    /\ lastEnd' = NoEnd
    /\ tex' = [t \in Textures(hdr) |-> Prev(t)]
    /\ displayed' = <<>>

\* What an operation between two frames leaves alone; the record of the
\* frame before it ends with it.
idleVars == <<drawBuf, readTex, glClearColor, depthMask, depthTest, activeRenderPath,
              effectActiveType, effectPass, pc, fx>>

\* Render is entered: the thread is at the first call of its body.
Render ==
    /\ pc = "idle"
    /\ pc' = RenderBody[1]
    /\ NewFrame
    /\ UNCHANGED <<sysVars, camVars, sceneVars, windowVars, drawBuf, readTex, glClearColor,
                   depthMask, depthTest, activeRenderPath, effectActiveType,
                   effectPass, fx>>

\* startRender: the draw buffer it selects.
StartRenderDraw(h) == IF h THEN COLOR_ATTACHMENT1 ELSE COLOR_ATTACHMENT0

\* ClearBackgroundTex with clear mode Depth clearing the color buffer too.
ClearBackgroundTexDepthClearsAll(t, a) ==
    IF clearMode = ClearModeNothing THEN t
    ELSE IF clearMode = ClearModeDepth THEN ClearBuffers(t, a, glClearColor)
    ELSE IF clearMode = ClearModeColor THEN ClearBuffers(t, a, clearColor)
    ELSE IF skybox
         THEN DrawOver(ClearBuffers(t, a, glClearColor), a, << <<"skybox">> >>, depthMask)
         ELSE ClearBuffers(t, a, glClearColor)

\* clearBackground: the buffer contents, the GL clear color and the texture
\* bound to unit 0 it leaves, with draw buffer a selected.
ClearBackgroundTex(t, a) ==
    IF clearMode = ClearModeNothing THEN t
    ELSE IF clearMode = ClearModeDepth THEN ClearDepth(t)
    ELSE IF clearMode = ClearModeColor THEN ClearBuffers(t, a, clearColor)
    ELSE IF skybox
         THEN DrawOver(ClearBuffers(t, a, glClearColor), a, << <<"skybox">> >>, depthMask)
         ELSE ClearBuffers(t, a, glClearColor)

ClearBackgroundColor ==
    IF clearMode = ClearModeColor THEN <<0, 0, 0, 1>> ELSE glClearColor

ClearBackgroundRead ==
    IF clearMode = ClearModeSkybox /\ skybox THEN OtherTexture ELSE readTex

\* startRender rebuilding the caches for the frame.
startRenderRebuilds ==
    /\ pc = "startRender"
    /\ drawBuf' = StartRenderDraw(hdr)
    /\ passes' = Append(passes, "ClearBackground")
    /\ tex' = ClearBackgroundTex(tex, drawBuf')
    /\ glClearColor' = ClearBackgroundColor
    /\ readTex' = ClearBackgroundRead
    /\ pc' = After("startRender")
    /\ forwardCache' = ForwardOf(renderPath, DrawablesOf(scene))
    /\ deferredCache' = DeferredOf(renderPath, DrawablesOf(scene))
    /\ UNCHANGED <<sysVars, camVars, scene, windowVars, depthMask, depthTest,
                   activeRenderPath, effectActiveType, effectPass, fx,
                   drawCalls, lastDraw, lastEnd, displayed>>

startRender ==
    /\ pc = "startRender"
    /\ drawBuf' = StartRenderDraw(hdr)
    /\ passes' = Append(passes, "ClearBackground")
    /\ tex' = ClearBackgroundTex(tex, drawBuf')
    /\ glClearColor' = ClearBackgroundColor
    /\ readTex' = ClearBackgroundRead
    /\ pc' = After("startRender")
    /\ UNCHANGED <<sysVars, camVars, sceneVars, windowVars, depthMask, depthTest,
                   activeRenderPath, effectActiveType, effectPass, fx,
                   drawCalls, lastDraw, lastEnd, displayed>>

\* The Draw calls a pass makes on a cache, in order, each with the value
\* ActiveRenderPath() returns to the drawable during the call.
DrawsOf(cache, path) == [i \in 1..Len(cache) |-> <<cache[i], path>>]

\* renderDeferred: whether the pass runs.
DeferredRuns == renderPath = RenderPathDeferred /\ deferredShader

\* renderDeferred: the geometry pass draws the deferred cache into the
\* G-buffer, whose depth attachment is the camera's and is cleared with it;
\* the ambient pass then draws one quad, with depth writes off, into the
\* draw buffer selected on the camera's framebuffer.
renderDeferred ==
    /\ pc = "renderDeferred"
    /\ IF DeferredRuns
       THEN /\ passes' = Append(passes, "DeferredPass")
            /\ activeRenderPath' = RenderPathDeferred
            /\ drawCalls' = drawCalls \o DrawsOf(deferredCache, activeRenderPath')
            /\ readTex' = OtherTexture
            /\ tex' = DrawOver(ClearDepth(tex), drawBuf, << <<"ambient">> >>, FALSE)
            /\ depthMask' = TRUE
       ELSE UNCHANGED <<passes, activeRenderPath, drawCalls, readTex, tex, depthMask>>
    /\ pc' = After("renderDeferred")
    /\ UNCHANGED <<sysVars, camVars, sceneVars, windowVars, drawBuf, glClearColor, depthTest,
                   effectActiveType, effectPass, fx, lastDraw, lastEnd, displayed>>

\* renderForward leaving the active render path as renderDeferred set it.
renderForwardKeepsPath ==
    /\ pc = "renderForward"
    /\ passes' = Append(passes, "ForwardPass")
    /\ activeRenderPath' = activeRenderPath
    /\ drawCalls' = drawCalls \o DrawsOf(forwardCache, activeRenderPath')
    /\ tex' = DrawOver(tex, drawBuf, [i \in 1..Len(forwardCache) |-> <<"draw", forwardCache[i]>>], depthMask)
    /\ readTex' = IF forwardCache = <<>> THEN readTex ELSE OtherTexture
    /\ pc' = After("renderForward")
    /\ UNCHANGED <<sysVars, camVars, sceneVars, windowVars, drawBuf, glClearColor, depthMask,
                   depthTest, effectActiveType, effectPass, fx, lastDraw, lastEnd,
                   displayed>>

\* renderForward: the forward cache is drawn with the active render path
\* set to Forward.
renderForward ==
    /\ pc = "renderForward"
    /\ passes' = Append(passes, "ForwardPass")
    /\ activeRenderPath' = RenderPathForward
    /\ drawCalls' = drawCalls \o DrawsOf(forwardCache, activeRenderPath')
    /\ tex' = DrawOver(tex, drawBuf, [i \in 1..Len(forwardCache) |-> <<"draw", forwardCache[i]>>], depthMask)
    /\ readTex' = IF forwardCache = <<>> THEN readTex ELSE OtherTexture
    /\ pc' = After("renderForward")
    /\ UNCHANGED <<sysVars, camVars, sceneVars, windowVars, drawBuf, glClearColor, depthMask,
                   depthTest, effectActiveType, effectPass, fx, lastDraw, lastEnd,
                   displayed>>

\* renderEffects up to the first effect of the chain.
renderEffects ==
    /\ pc = "renderEffects"
    /\ passes' = Append(passes, "EffectChain")
    /\ IF Len(effects) = 0
       THEN /\ pc' = After("renderEffects")
            /\ UNCHANGED <<depthMask, depthTest, effectActiveType, fx>>
       ELSE /\ depthMask' = FALSE
            /\ depthTest' = FALSE
            /\ effectActiveType' = InitialActive(hdr)
            /\ fx' = 1
            /\ pc' = "startEffectPass"
    /\ UNCHANGED <<sysVars, camVars, sceneVars, windowVars, drawBuf, readTex, tex, glClearColor,
                   activeRenderPath, effectPass, drawCalls, lastDraw, lastEnd,
                   displayed>>

\* The head of the loop body for effect fx, and startEffectPass.
startEffectPass ==
    /\ pc = "startEffectPass"
    /\ effectActiveType' = LoopType(hdr, effects[fx].type, effectActiveType)
    /\ effectPass' = 0
    /\ readTex' = StartEffectPassRead(effectActiveType', readTex)
    /\ drawBuf' = StartEffectPassDraw(effectActiveType', drawBuf)
    /\ pc' = "effect.Render"
    /\ UNCHANGED <<sysVars, camVars, sceneVars, windowVars, tex, glClearColor, depthMask,
                   depthTest, activeRenderPath, fx, passes, drawCalls, lastDraw,
                   lastEnd, displayed>>

\* One EffectPass call made by the Render of effect fx.
EffectPass ==
    /\ pc = "effect.Render"
    /\ effectPass < effects[fx].n
    /\ readTex' = EffectPassRead(effectActiveType, effectPass, readTex)
    /\ drawBuf' = EffectPassDraw(effectActiveType, effectPass, drawBuf)
    /\ tex' = FullScreenPass(tex, readTex', drawBuf', << <<"fx", fx, effectPass>> >>)
    /\ lastDraw' = [kind |-> "sub", fx |-> fx, pass |-> effectPass,
                    active |-> effectActiveType, read |-> readTex', write |-> drawBuf']
    /\ effectPass' = effectPass + 1
    /\ UNCHANGED <<sysVars, camVars, sceneVars, windowVars, glClearColor, depthMask, depthTest,
                   activeRenderPath, effectActiveType, pc, fx, passes, drawCalls,
                   lastEnd, displayed>>

\* The Render of effect fx returns; endEffectPass and the rest of the loop body.
endEffectPass ==
    /\ pc = "effect.Render"
    /\ effectPass = effects[fx].n
    /\ drawBuf' = EndEffectPassDraw(hdr)
    /\ IF EndEffectPassCopies(effectActiveType, effectPass)
       THEN /\ readTex' = EndEffectPassRead(effectActiveType)
            /\ tex' = FullScreenPass(tex, readTex', drawBuf', <<>>)
            /\ lastDraw' = [kind |-> "copy", fx |-> fx, pass |-> effectPass,
                            active |-> effectActiveType, read |-> readTex',
                            write |-> drawBuf']
       ELSE UNCHANGED <<readTex, tex, lastDraw>>
    /\ lastEnd' = [fx |-> fx, type |-> effects[fx].type, active |-> effectActiveType,
                   n |-> effectPass, draw |-> drawBuf',
                   copied |-> EndEffectPassCopies(effectActiveType, effectPass)]
    /\ effectActiveType' = ActiveAfter(hdr, effects[fx].type, effectActiveType)
    /\ IF fx < Len(effects)
       THEN fx' = fx + 1 /\ pc' = "startEffectPass"
       ELSE fx' = fx /\ pc' = "renderEffects.return"
    /\ UNCHANGED <<sysVars, camVars, sceneVars, windowVars, glClearColor, depthMask, depthTest,
                   activeRenderPath, effectPass, passes, drawCalls, displayed>>

\* renderEffectsReturn enabling the depth test but not the depth writes.
renderEffectsReturnMaskOff ==
    /\ pc = "renderEffects.return"
    /\ depthTest' = TRUE
    /\ depthMask' = depthMask
    /\ pc' = After("renderEffects")
    /\ UNCHANGED <<sysVars, camVars, sceneVars, windowVars, drawBuf, readTex, tex, glClearColor,
                   activeRenderPath, effectActiveType, effectPass, fx, passes,
                   drawCalls, lastDraw, lastEnd, displayed>>

\* renderEffects after the last effect.
renderEffectsReturn ==
    /\ pc = "renderEffects.return"
    /\ depthTest' = TRUE
    /\ depthMask' = TRUE
    /\ pc' = After("renderEffects")
    /\ UNCHANGED <<sysVars, camVars, sceneVars, windowVars, drawBuf, readTex, tex, glClearColor,
                   activeRenderPath, effectActiveType, effectPass, fx, passes,
                   drawCalls, lastDraw, lastEnd, displayed>>

endRender ==
    /\ pc = "endRender"
    /\ passes' = Append(passes, "Resolve")
    /\ displayed' = tex[AttachmentTexture(COLOR_ATTACHMENT0)]
    /\ pc' = After("endRender")
    /\ UNCHANGED <<sysVars, camVars, sceneVars, windowVars, glVars, activeRenderPath,
                   effectActiveType, effectPass, fx, drawCalls, lastDraw, lastEnd>>

Frame ==
    \/ Render
    \/ startRender
    \/ renderDeferred
    \/ renderForward
    \/ renderEffects
    \/ startEffectPass
    \/ EffectPass
    \/ endEffectPass
    \/ renderEffectsReturn
    \/ endRender

\* --------------------------------------------------- between the frames
\* The scene graph adds or removes a component (no notification is implied).
SceneAdd ==
    /\ pc = "idle"
    /\ \E c \in Components :
          /\ \A i \in 1..Len(scene) : scene[i] # c
          /\ scene' = Append(scene, c)
    /\ NewFrame
    /\ UNCHANGED <<sysVars, camVars, forwardCache, deferredCache, windowVars, idleVars>>

SceneRemove ==
    /\ pc = "idle"
    /\ \E i \in 1..Len(scene) :
          scene' = SubSeq(scene, 1, i - 1) \o SubSeq(scene, i + 1, Len(scene))
    /\ NewFrame
    /\ UNCHANGED <<sysVars, camVars, forwardCache, deferredCache, windowVars, idleVars>>

OnSceneGraphUpdate ==
    /\ pc = "idle"
    /\ forwardCache' = ForwardOf(renderPath, DrawablesOf(scene))
    /\ deferredCache' = DeferredOf(renderPath, DrawablesOf(scene))
    /\ NewFrame
    /\ UNCHANGED <<sysVars, camVars, scene, windowVars, idleVars>>

\* The window system handles the events of a frame: the window was resized
\* to another resolution, or it was not resized.
HandleEvents ==
    /\ pc = "idle"
    /\ \E r \in Resolutions :
          /\ windowRes' = r
          /\ windowResized' = (r # windowRes)
    /\ NewFrame
    /\ UNCHANGED <<sysVars, camVars, sceneVars, aspectRatio, fbSize, gbSize, projectionMatrix,
                   idleVars>>

\* Resize calling UpdateMatrices before it stores the new aspect ratio.
ResizeBodyMatricesFirst ==
    /\ aspectRatio' = WindowAspectRatio(windowRes)
    /\ fbSize' = windowRes
    /\ gbSize' = IF renderPath = RenderPathDeferred THEN windowRes ELSE gbSize
    /\ projectionMatrix' = ProjectionOf(orthographic, windowRes, aspectRatio)

\* Resize followed by UpdateMatrices.
ResizeBody ==
    /\ aspectRatio' = WindowAspectRatio(windowRes)
    /\ fbSize' = windowRes
    /\ gbSize' = IF renderPath = RenderPathDeferred THEN windowRes ELSE gbSize
    /\ projectionMatrix' = ProjectionOf(orthographic, windowRes, aspectRatio')

\* Resize, called directly or by Awake.
Resize ==
    /\ pc = "idle"
    /\ ResizeBody
    /\ NewFrame
    /\ UNCHANGED <<sysVars, camVars, sceneVars, windowRes, windowResized, idleVars>>

Update ==
    /\ pc = "idle"
    /\ IF windowResized
       THEN ResizeBody
       ELSE UNCHANGED <<aspectRatio, fbSize, gbSize, projectionMatrix>>
    /\ NewFrame
    /\ UNCHANGED <<sysVars, camVars, sceneVars, windowRes, windowResized, idleVars>>

\* ------------------------------------------------- the instance system
\* int32: the type of InstanceSystem.next and of an ID.
MaxInt32 == 2147483647
MinInt32 == -MaxInt32 - 1

\* s.next + 1 in int32 arithmetic: the sum wraps from MaxInt32 to MinInt32.
Inc32(x) == IF x = MaxInt32 THEN MinInt32 ELSE x + 1

\* The threads that call the allocator, the objects they pass, the nil object.
Threads == 1..MaxThreads
Objects == 1..MaxObjects
nil == 0

\* The objects the table holds.
Live == {objects[id] : id \in DOMAIN objects}

\* NewInstanceSystem: an empty table, next zero, the mutex free.
NewInstanceSystem ==
    /\ objects = <<>>
    /\ next = 0
    /\ mu = 0

\* No thread is inside a call.
ThreadsIdle ==
    /\ ipc = [t \in Threads |-> "idle"]
    /\ arg = [t \in Threads |-> nil]
    /\ local = [t \in Threads |-> 0]
    /\ ret = [t \in Threads |-> <<"none">>]

\* A thread's call returns r: the deferred Unlock is all that is left of it.
Return(t, r) ==
    /\ ret' = [ret EXCEPT ![t] = r]
    /\ ipc' = [ipc EXCEPT ![t] = "Unlock"]

\* Assign(object): s.mu.Lock().
AssignLock(t) ==
    /\ ipc[t] = "idle"
    /\ mu = 0
    /\ mu' = t
    /\ \E o \in Objects \cup {nil} : arg' = [arg EXCEPT ![t] = o]
    /\ ipc' = [ipc EXCEPT ![t] = "Assign.check"]
    /\ ret' = [ret EXCEPT ![t] = <<"none">>]
    /\ UNCHANGED <<cameraVars, appVars, objects, next, objID, local>>

\* AssignCheck without the test of the object's ID.
AssignCheckNilOnly(t) ==
    /\ ipc[t] = "Assign.check"
    /\ IF arg[t] = nil THEN Return(t, <<"ErrAssignNilObject">>)
       ELSE /\ ipc' = [ipc EXCEPT ![t] = "nextID"]
            /\ ret' = ret
    /\ UNCHANGED <<cameraVars, appVars, objects, next, mu, objID, arg, local>>

\* Assign: the nil test and the test of the object's ID.
AssignCheck(t) ==
    /\ ipc[t] = "Assign.check"
    /\ IF arg[t] = nil THEN Return(t, <<"ErrAssignNilObject">>)
       ELSE IF objID[arg[t]] # 0 THEN Return(t, <<"ErrObjectAlreadyAssigned">>)
       ELSE /\ ipc' = [ipc EXCEPT ![t] = "nextID"]
            /\ ret' = ret
    /\ UNCHANGED <<cameraVars, appVars, objects, next, mu, objID, arg, local>>

\* nextID up to its loop: the size test, id := s.next + 1 and the lookup of
\* id; when id is free the loop is skipped and id becomes s.next.
nextID(t) ==
    /\ ipc[t] = "nextID"
    /\ IF Cardinality(DOMAIN objects) >= MaxInt32
       THEN /\ Return(t, <<"ErrMaxIDsExceeded">>)
            /\ UNCHANGED <<next, local>>
       ELSE IF Inc32(next) \in DOMAIN objects
       THEN /\ ipc' = [ipc EXCEPT ![t] = "nextID.loop"]
            /\ local' = [local EXCEPT ![t] = Inc32(next)]
            /\ UNCHANGED <<next, ret>>
       ELSE /\ next' = Inc32(next)
            /\ local' = [local EXCEPT ![t] = Inc32(next)]
            /\ ipc' = [ipc EXCEPT ![t] = "Assign.store"]
            /\ ret' = ret
    /\ UNCHANGED <<cameraVars, appVars, objects, mu, objID, arg>>

\* One pass of the loop of nextID: its body declares a new id, s.next + 1
\* again, and looks that up; the id the function returns is left as it was.
nextIDLoop(t) ==
    /\ ipc[t] = "nextID.loop"
    /\ IF Inc32(next) \in DOMAIN objects
       THEN UNCHANGED <<next, ipc>>
       ELSE /\ next' = local[t]
            /\ ipc' = [ipc EXCEPT ![t] = "Assign.store"]
    /\ UNCHANGED <<cameraVars, appVars, objects, mu, objID, arg, local, ret>>

\* Assign: s.objects[id] = object.
AssignStore(t) ==
    /\ ipc[t] = "Assign.store"
    /\ objects' = [i \in DOMAIN objects \cup {local[t]} |->
                      IF i = local[t] THEN arg[t] ELSE objects[i]]
    /\ ipc' = [ipc EXCEPT ![t] = "Assign.SetID"]
    /\ UNCHANGED <<cameraVars, appVars, next, mu, objID, arg, local, ret>>

\* Assign: object.SetID(id) and return nil.
AssignSetID(t) ==
    /\ ipc[t] = "Assign.SetID"
    /\ objID' = [objID EXCEPT ![arg[t]] = local[t]]
    /\ Return(t, <<"nil">>)
    /\ UNCHANGED <<cameraVars, appVars, objects, next, mu, arg, local>>

\* The IDs a caller passes to Release and Get: zero, the ID of an object it
\* knows, an ID in the table.
IDArgs == {0} \cup {objID[o] : o \in Objects} \cup DOMAIN objects

\* Release(id): s.mu.Lock().
ReleaseLock(t) ==
    /\ ipc[t] = "idle"
    /\ mu = 0
    /\ mu' = t
    /\ \E id \in IDArgs : arg' = [arg EXCEPT ![t] = id]
    /\ ipc' = [ipc EXCEPT ![t] = "Release.loop"]
    /\ ret' = [ret EXCEPT ![t] = <<"none">>]
    /\ UNCHANGED <<cameraVars, appVars, objects, next, objID, local>>

\* Release: the pass of its loop for the ID. Zero is skipped, an ID that is
\* not in the table is logged, any other is deleted after the object's
\* Dealloc and Release; the object's ID field is not written.
ReleaseLoop(t) ==
    /\ ipc[t] = "Release.loop"
    /\ IF arg[t] = 0 THEN Return(t, <<"skipped">>) /\ objects' = objects
       ELSE IF arg[t] \notin DOMAIN objects
       THEN Return(t, <<"ErrIDNotFound">>) /\ objects' = objects
       ELSE /\ objects' = [i \in DOMAIN objects \ {arg[t]} |-> objects[i]]
            /\ Return(t, <<"released">>)
    /\ UNCHANGED <<cameraVars, appVars, next, mu, objID, arg, local>>

\* Get(id): the lookup, under the lock it takes.
Get(t) ==
    /\ ipc[t] = "idle"
    /\ mu = 0
    /\ mu' = t
    /\ \E id \in IDArgs :
          /\ arg' = [arg EXCEPT ![t] = id]
          /\ IF id \in DOMAIN objects
             THEN Return(t, <<"object", objects[id]>>)
             ELSE Return(t, <<"ErrIDNotFound">>)
    /\ UNCHANGED <<cameraVars, appVars, objects, next, objID, local>>

\* The deferred s.mu.Unlock() of Assign, Release and Get; the call is over.
Unlock(t) ==
    /\ ipc[t] = "Unlock"
    /\ mu' = 0
    /\ ipc' = [ipc EXCEPT ![t] = "idle"]
    /\ arg' = [arg EXCEPT ![t] = nil]
    /\ local' = [local EXCEPT ![t] = 0]
    /\ ret' = [ret EXCEPT ![t] = <<"none">>]
    /\ UNCHANGED <<cameraVars, appVars, objects, next, objID>>

\* ---------------------------------------------------------------- the app
\* The most fixed updates one frame makes.
maxFrameSkip == 5

\* The systems Setup registers itself, in the order it registers them.
CoreSystems == <<"window", "instance", "asset", "time", "scene">>

\* The systems the program registers: instance i has the name UserName(i),
\* so two of them share a name and one has the name of a core system.
UserName(i) == IF i % 3 = 0 THEN "time" ELSE IF i % 3 = 1 THEN "audio" ELSE "input"
UserSystems == {[name |-> UserName(i), inst |-> i] : i \in 1..MaxUserSystems}
SystemNames == {CoreSystems[i] : i \in 1..Len(CoreSystems)} \cup {"audio", "input"}

\* The errors: nil, and those that carry the name of a system.
NoError == <<"nil">>
NoSystem == [name |-> "nil", inst |-> 0]
ErrSystemExists(name) == <<"ErrSystemExists", name>>
ErrSystemNotFound(name) == <<"ErrSystemNotFound", name>>

\* SystemRegistered comparing the name with the last system's only.
SystemRegisteredLastOnly(sys, name) ==
    Len(sys) > 0 /\ sys[Len(sys)].name = name

\* SystemRegistered(name).
SystemRegistered(sys, name) ==
    \E i \in 1..Len(sys) : sys[i].name = name

\* System(name): the first system of that name and nil, or nil and
\* ErrSystemNotFound.
System(sys, name) ==
    IF \E i \in 1..Len(sys) : sys[i].name = name
    THEN [system |-> sys[CHOOSE i \in 1..Len(sys) :
                            /\ sys[i].name = name
                            /\ \A j \in 1..(i - 1) : sys[j].name # name],
          err |-> NoError]
    ELSE [system |-> NoSystem, err |-> ErrSystemNotFound(name)]

\* An App before Setup.
NewApp ==
    /\ systems = <<>>
    /\ running = FALSE
    /\ apc = "new"
    /\ sigpc = "none"
    /\ shouldClose = FALSE
    /\ loops = 0
    /\ log = <<>>
    /\ inFrame = FALSE
    /\ quitAt = "none"
    /\ lateFrame = FALSE
    /\ setupLog = <<>>
    /\ teardownLog = <<>>
    /\ si = 0
    /\ appErr = NoError

\* RegisterSystem(s) called by the program, before Setup or in PreSetupFunc;
\* the caller recovers from the panic.
RegisterSystem ==
    /\ apc \in {"new", "PreSetupFunc"}
    /\ \E s \in UserSystems :
          IF SystemRegistered(systems, s.name)
          THEN /\ appErr' = ErrSystemExists(s.name)
               /\ systems' = systems
          ELSE /\ systems' = Append(systems, s)
               /\ appErr' = NoError
    /\ UNCHANGED <<cameraVars, instVars, runVars, apc, setupLog, teardownLog, si>>

\* Setup is entered.
Setup ==
    /\ apc = "new"
    /\ apc' = "Setup.register"
    /\ si' = 1
    /\ UNCHANGED <<cameraVars, instVars, runVars, systems, setupLog, teardownLog,
                   appErr>>

\* Setup: one of its five RegisterSystem calls; its panic ends Setup.
SetupRegister ==
    /\ apc = "Setup.register"
    /\ IF SystemRegistered(systems, CoreSystems[si])
       THEN /\ appErr' = ErrSystemExists(CoreSystems[si])
            /\ apc' = "panicked"
            /\ UNCHANGED <<systems, si>>
       ELSE /\ systems' = Append(systems, [name |-> CoreSystems[si], inst |-> 0])
            /\ appErr' = NoError
            /\ IF si < Len(CoreSystems)
               THEN si' = si + 1 /\ apc' = apc
               ELSE si' = si /\ apc' = "PreSetupFunc"
    /\ UNCHANGED <<cameraVars, instVars, runVars, setupLog, teardownLog>>

\* PreSetupFunc returns, with an error or without.
PreSetupFunc ==
    /\ apc = "PreSetupFunc"
    /\ \E err \in BOOLEAN :
          IF err
          THEN apc' = "Setup.failed" /\ appErr' = <<"PreSetupFunc">> /\ si' = si
          ELSE apc' = "Setup.loop" /\ appErr' = appErr /\ si' = 1
    /\ UNCHANGED <<cameraVars, instVars, runVars, systems, setupLog, teardownLog>>

\* Setup: one pass of its loop over the systems; the first Setup that
\* returns an error ends it.
SetupSystem ==
    /\ apc = "Setup.loop"
    /\ IF si > Len(systems)
       THEN /\ apc' = "Setup.post"
            /\ UNCHANGED <<setupLog, si, appErr>>
       ELSE /\ setupLog' = Append(setupLog, systems[si])
            /\ \E err \in BOOLEAN :
                  IF err
                  THEN apc' = "Setup.failed" /\ appErr' = <<"Setup">> /\ si' = si
                  ELSE apc' = apc /\ appErr' = appErr /\ si' = si + 1
    /\ UNCHANGED <<cameraVars, instVars, runVars, systems, teardownLog>>

\* Setup after its loop: the asset handlers, LoadManifest, PostSetupFunc.
SetupPost ==
    /\ apc = "Setup.post"
    /\ \E err \in BOOLEAN :
          IF err
          THEN apc' = "Setup.failed" /\ appErr' = <<"PostSetup">>
          ELSE apc' = "ready" /\ appErr' = NoError
    /\ UNCHANGED <<cameraVars, instVars, runVars, systems, setupLog, teardownLog, si>>

\* Teardown visiting the systems first to last.
TeardownOrderForward(n) == [k \in 1..n |-> k]

\* Teardown: the indices its loop visits, i from n - 1 down to 0 (here from
\* n down to 1).
TeardownOrder(n) == [k \in 1..n |-> n - k + 1]

\* Teardown is entered, after Run, after Setup, or after a failed Setup.
Teardown ==
    /\ apc \in {"Run.returned", "ready", "Setup.failed"}
    /\ apc' = "Teardown.loop"
    /\ si' = 1
    /\ UNCHANGED <<cameraVars, instVars, runVars, systems, setupLog, teardownLog,
                   appErr>>

\* Teardown: one pass of its loop.
TeardownSystem ==
    /\ apc = "Teardown.loop"
    /\ IF si > Len(systems)
       THEN /\ apc' = "done"
            /\ UNCHANGED <<teardownLog, si>>
       ELSE /\ teardownLog' = Append(teardownLog, systems[TeardownOrder(Len(systems))[si]])
            /\ si' = si + 1
            /\ apc' = apc
    /\ UNCHANGED <<cameraVars, instVars, runVars, systems, setupLog, appErr>>

\* Where the frame loop is when Quit is called: between two iterations,
\* between the loop test and the first statement of the body, inside the
\* body, or not in Run.
QuitPlace ==
    IF apc = "Run.test" THEN "idle"
    ELSE IF apc = "Run.shouldClose" THEN "gap"
    ELSE IF inFrame THEN "frame"
    ELSE "outside"

\* Quit: a.running = false.
QuitBody ==
    /\ running' = FALSE
    /\ quitAt' = IF quitAt = "none" THEN QuitPlace ELSE quitAt

\* Run up to its loop: running is set, the signal handler is set up, the
\* three systems are looked up.
Run ==
    /\ apc = "ready"
    /\ running' = TRUE
    /\ sigpc' = "waiting"
    /\ IF \E n \in {"time", "window", "scene"} :
             System(systems, n).err # NoError
       THEN apc' = "panicked"
       ELSE apc' = "Run.test"
    /\ UNCHANGED <<cameraVars, instVars, regVars, shouldClose, loops, log, inFrame,
                   quitAt, lateFrame>>

\* handleSignal: the signal arrives and the goroutine calls Quit.
handleSignal ==
    /\ sigpc = "waiting"
    /\ sigpc' = "done"
    /\ QuitBody
    /\ UNCHANGED <<cameraVars, instVars, regVars, apc, shouldClose, loops, log,
                   inFrame, lateFrame>>

\* The test of for a.running.
RunLoopTest ==
    /\ apc = "Run.test"
    /\ IF running
       THEN /\ apc' = "Run.shouldClose"
            /\ inFrame' = TRUE
            /\ log' = <<>>
            /\ lateFrame' = (lateFrame \/ quitAt # "none")
       ELSE /\ apc' = "Run.returned"
            /\ UNCHANGED <<inFrame, log, lateFrame>>
    /\ UNCHANGED <<cameraVars, instVars, regVars, running, sigpc, shouldClose, loops,
                   quitAt>>

\* RunShouldClose leaving the loop when the window is to close.
RunShouldCloseBreaks ==
    /\ apc = "Run.shouldClose"
    /\ running' = ~shouldClose
    /\ apc' = IF shouldClose THEN "Run.returned" ELSE "FrameStart"
    /\ UNCHANGED <<cameraVars, instVars, regVars, sigpc, shouldClose, loops, log,
                   inFrame, quitAt, lateFrame>>

\* a.running = !window.ShouldClose().
RunShouldClose ==
    /\ apc = "Run.shouldClose"
    /\ running' = ~shouldClose
    /\ apc' = "FrameStart"
    /\ UNCHANGED <<cameraVars, instVars, regVars, sigpc, shouldClose, loops, log,
                   inFrame, quitAt, lateFrame>>

\* One call of the loop body: the main goroutine is at it, makes it, and is
\* at the one after it.
FrameCall(at, to) ==
    /\ apc = at
    /\ log' = Append(log, at)
    /\ apc' = to

FrameStart ==
    /\ FrameCall("FrameStart", "OnUpdate")
    /\ UNCHANGED <<cameraVars, instVars, regVars, running, sigpc, shouldClose, loops,
                   inFrame, quitAt, lateFrame>>

\* scene.OnUpdate(), in which a component may call Quit; loops = 0.
OnUpdate ==
    /\ FrameCall("OnUpdate", "OnFixedUpdate")
    /\ loops' = 0
    /\ \E quit \in BOOLEAN :
          IF quit THEN QuitBody ELSE UNCHANGED <<running, quitAt>>
    /\ UNCHANGED <<cameraVars, instVars, regVars, sigpc, shouldClose, inFrame,
                   lateFrame>>

\* The test of the fixed-update loop and, when it passes, its body:
\* time.LogicUpdate() says whether a fixed update is due.
OnFixedUpdate ==
    /\ apc = "OnFixedUpdate"
    /\ \E due \in BOOLEAN :
          IF due /\ loops < maxFrameSkip
          THEN /\ log' = Append(log, "OnFixedUpdate")
               /\ loops' = loops + 1
               /\ apc' = apc
          ELSE /\ apc' = "ClearBuffers"
               /\ UNCHANGED <<log, loops>>
    /\ UNCHANGED <<cameraVars, instVars, regVars, running, sigpc, shouldClose,
                   inFrame, quitAt, lateFrame>>

ClearBuffersCall ==
    /\ FrameCall("ClearBuffers", "OnDisplay")
    /\ UNCHANGED <<cameraVars, instVars, regVars, running, sigpc, shouldClose, loops,
                   inFrame, quitAt, lateFrame>>

OnDisplay ==
    /\ FrameCall("OnDisplay", "SwapBuffers")
    /\ UNCHANGED <<cameraVars, instVars, regVars, running, sigpc, shouldClose, loops,
                   inFrame, quitAt, lateFrame>>

SwapBuffers ==
    /\ FrameCall("SwapBuffers", "HandleEvents")
    /\ UNCHANGED <<cameraVars, instVars, regVars, running, sigpc, shouldClose, loops,
                   inFrame, quitAt, lateFrame>>

\* window.HandleEvents(): the user may have asked the window to close.
WindowHandleEvents ==
    /\ FrameCall("HandleEvents", "FrameEnd")
    /\ \E close \in BOOLEAN : shouldClose' = (shouldClose \/ close)
    /\ UNCHANGED <<cameraVars, instVars, regVars, running, sigpc, loops, inFrame,
                   quitAt, lateFrame>>

\* time.FrameEnd(), the last call of the iteration.
FrameEnd ==
    /\ FrameCall("FrameEnd", "Run.test")
    /\ inFrame' = FALSE
    /\ UNCHANGED <<cameraVars, instVars, regVars, running, sigpc, shouldClose, loops,
                   quitAt, lateFrame>>

\* ------------------------------------------------- the camera's settings
SetClearMode ==
    /\ pc = "idle"
    /\ \E mode \in ClearModes : clearMode' = mode
    /\ NewFrame
    /\ UNCHANGED <<sysVars, hdr, renderPath, deferredShader, clearColor, skybox,
                   effects, sceneVars, windowVars, idleVars>>

\* ------------------------------------------------------ specifications
\* The two systems as constructed, with no thread inside the allocator.
SystemsIdle ==
    /\ NewInstanceSystem
    /\ objID = [o \in Objects |-> 0]
    /\ ThreadsIdle
    /\ NewApp

\* The chains AddEffect can have built: up to MaxEffects effects of every
\* type, each making up to MaxSubPasses sub-passes.
Chains == UNION {[1..k -> EffectDescs] : k \in 0..MaxEffects}

\* The chain of the blur / tonemap / vignette scenario.
ScenarioChains ==
    {<<[type |-> EffectTypeHDR, n |-> 3], [type |-> EffectTypeTonemapper, n |-> t],
       [type |-> EffectTypeLDR, n |-> 1]>> : t \in 1..MaxSubPasses}

\* A camera with an effect chain, rendering frame after frame.
Init ==
    /\ NewCamera
    /\ SystemsIdle
    /\ effects \in Chains \cup ScenarioChains
    /\ scene = <<>>
    /\ renderPath = RenderPathForward
    /\ skybox = FALSE
    /\ windowRes = <<4, 3>>

Next == Frame

Spec == Init /\ [][Next]_vars

\* The chain of the camera in a changing scene: one effect of one sub-pass.
SceneChains == {<<[type |-> EffectTypeHDR, n |-> 1]>>}

\* A camera in a scene whose components come and go and in a window that is
\* resized, rendering frame after frame.
InitScene ==
    /\ NewCamera
    /\ SystemsIdle
    /\ effects \in SceneChains
    /\ scene = <<>>
    /\ skybox = FALSE

NextScene ==
    \/ Frame
    \/ SceneAdd
    \/ SceneRemove
    \/ OnSceneGraphUpdate
    \/ HandleEvents
    \/ Resize
    \/ Update

SpecScene == InitScene /\ [][NextScene]_vars

\* The chains of the camera whose clear mode is set: none, or one LDR effect.
ClearChains == {<<>>, <<[type |-> EffectTypeLDR, n |-> 2]>>}

\* A camera of either kind, with or without a skybox in its environment,
\* whose clear mode is set between the frames it renders; nothing is drawn.
InitClear ==
    /\ NewCamera
    /\ SystemsIdle
    /\ effects \in ClearChains
    /\ scene = <<>>
    /\ windowRes = <<4, 3>>

NextClear == Frame \/ SetClearMode

SpecClear == InitClear /\ [][NextClear]_vars

\* A camera that renders nothing while the systems are exercised.
CameraIdle ==
    /\ NewCamera
    /\ hdr = FALSE
    /\ renderPath = RenderPathForward
    /\ skybox = FALSE
    /\ windowRes = <<4, 3>>
    /\ effectActiveType = EffectTypeLDR
    /\ effects = <<>>
    /\ scene = <<>>

\* The states the allocator is started from: as constructed, or after it has
\* handed out MaxInt32 - 1 IDs (next is about to wrap to MinInt32), or
\* 2^32 - 2 IDs (next has wrapped and is about to reach zero again); in the
\* two late states object 1, which was assigned ID 1 at the start of the
\* program, is still held or has been released and discarded.
InstanceStarts ==
    {[next |-> 0, held |-> FALSE]}
        \cup [next : {MaxInt32 - 1, -2}, held : BOOLEAN]

InitInstance ==
    /\ CameraIdle
    /\ NewApp
    /\ ThreadsIdle
    /\ mu = 0
    /\ \E start \in InstanceStarts :
          /\ next = start.next
          /\ objects = IF start.held THEN [id \in {1} |-> 1] ELSE <<>>
          /\ objID = [o \in Objects |-> IF start.held /\ o = 1 THEN 1 ELSE 0]

NextInstance ==
    \E t \in Threads :
        \/ AssignLock(t)
        \/ AssignCheck(t)
        \/ nextID(t)
        \/ nextIDLoop(t)
        \/ AssignStore(t)
        \/ AssignSetID(t)
        \/ ReleaseLock(t)
        \/ ReleaseLoop(t)
        \/ Get(t)
        \/ Unlock(t)

SpecInstance == InitInstance /\ [][NextInstance]_vars

\* An App from construction through Setup, Run and Teardown, with the
\* signal-handler goroutine beside it.
InitApp ==
    /\ CameraIdle
    /\ SystemsIdle

NextApp ==
    \/ RegisterSystem
    \/ Setup
    \/ SetupRegister
    \/ PreSetupFunc
    \/ SetupSystem
    \/ SetupPost
    \/ Run
    \/ handleSignal
    \/ RunLoopTest
    \/ RunShouldClose
    \/ FrameStart
    \/ OnUpdate
    \/ OnFixedUpdate
    \/ ClearBuffersCall
    \/ OnDisplay
    \/ SwapBuffers
    \/ WindowHandleEvents
    \/ FrameEnd
    \/ Teardown
    \/ TeardownSystem

SpecApp == InitApp /\ [][NextApp]_vars

TypeOK ==
    /\ pc \in {"idle", "startEffectPass", "effect.Render", "renderEffects.return"}
                 \cup {RenderBody[i] : i \in 1..Len(RenderBody)}
    /\ effectActiveType \in EffectTypes
    /\ effectPass \in 0..(MaxSubPasses + 3)
    /\ DOMAIN tex = Textures(hdr)


\* ------------------------------------------------------------ the claims
Range(q) == {q[i] : i \in 1..Len(q)}

\* The primary buffer of a domain and the attachment slot it is bound to.
PrimaryTexture(domain) ==
    IF domain = EffectTypeHDR THEN CameraTextureHDR0 ELSE CameraTextureLDR0

PrimaryAttachment(domain) ==
    IF domain = EffectTypeHDR THEN COLOR_ATTACHMENT1 ELSE COLOR_ATTACHMENT0

\* endEffectPass has just returned for effect lastEnd.fx.
JustEnded ==
    /\ lastEnd.fx # 0
    /\ pc \in {"startEffectPass", "renderEffects.return"}

\* The positions of the Tonemapper-typed effects of the chain.
Tonemappers == {i \in 1..Len(effects) : effects[i].type = EffectTypeTonemapper}

\* C1: in every sub-pass issued through EffectPass, in whichever domain
\* (HDR, LDR, Tonemapper) and at whichever value of the sub-pass counter, the
\* texture bound for reading is not the texture behind the selected draw
\* buffer.
C1_ReadWriteDistinct ==
    lastDraw.kind = "sub" =>
        /\ lastDraw.write \in Attachments(hdr)
        /\ lastDraw.read \in Textures(hdr)
        /\ AttachmentTexture(lastDraw.write) # lastDraw.read

C1_Witness ==
    /\ lastDraw.kind = "sub"
    /\ lastDraw.active = EffectTypeHDR
    /\ lastDraw.pass = 1

\* C2: when endEffectPass returns for an effect that ran in the HDR or LDR
\* domain and made N >= 1 sub-passes, the primary buffer of that domain holds
\* the output of the effect's last sub-pass.
C2_ResultInPrimary ==
    (JustEnded /\ lastEnd.active \in {EffectTypeHDR, EffectTypeLDR} /\ lastEnd.n >= 1) =>
        LET p == tex[PrimaryTexture(lastEnd.active)]
        IN p[Len(p)] = <<"fx", lastEnd.fx, lastEnd.n - 1>>

\* C3 as stated: every full-screen pass of a Tonemapper-typed effect is a
\* sub-pass that reads HDR0 and draws into color attachment 0, and no copy
\* pass runs for it.
C3_TonemapperAlways ==
    (lastDraw.kind # "none" /\ effects[lastDraw.fx].type = EffectTypeTonemapper) =>
        /\ lastDraw.kind = "sub"
        /\ lastDraw.read = CameraTextureHDR0
        /\ lastDraw.write = COLOR_ATTACHMENT0

\* C3 as amended: on an HDR camera, every full-screen pass of a
\* Tonemapper-typed effect is a sub-pass that reads HDR0 and draws into color
\* attachment 0 (LDR0), and no copy pass runs for it.
C3_TonemapperOnHDRCamera ==
    (hdr /\ lastDraw.kind # "none" /\ effects[lastDraw.fx].type = EffectTypeTonemapper) =>
        /\ lastDraw.kind = "sub"
        /\ lastDraw.read = CameraTextureHDR0
        /\ lastDraw.write = COLOR_ATTACHMENT0
        /\ AttachmentTexture(lastDraw.write) = CameraTextureLDR0

C3_Witness ==
    /\ hdr
    /\ lastDraw.kind = "sub"
    /\ effects[lastDraw.fx].type = EffectTypeTonemapper
    /\ lastDraw.pass = 1

\* Effect fx is in its Render call and a Tonemapper-typed effect precedes it.
RenderAfterTonemapper ==
    /\ pc = "effect.Render"
    /\ \E j \in Tonemappers : j < fx

\* C4 as stated: during the Render call of every effect that follows a
\* Tonemapper-typed effect in the chain, the active domain is LDR.
C4_LDRAfterTonemapper ==
    RenderAfterTonemapper => effectActiveType = EffectTypeLDR

\* C4 as amended: during the Render call of every effect that follows a
\* Tonemapper-typed effect in the chain and is not Tonemapper-typed itself,
\* the active domain is LDR.
C4_LDRAfterTonemapperForOthers ==
    (RenderAfterTonemapper /\ effects[fx].type # EffectTypeTonemapper) =>
        effectActiveType = EffectTypeLDR

C4_Witness ==
    /\ hdr
    /\ RenderAfterTonemapper
    /\ effects[fx].type = EffectTypeHDR
    /\ effectPass = 1

\* C5: the draw buffer endEffectPass restores, into which its copy pass
\* draws, is the primary attachment of the active domain: color attachment 1
\* (HDR0) when the domain is HDR, color attachment 0 (LDR0) when it is LDR.
C5_RestoresActivePrimary ==
    (JustEnded /\ lastEnd.active \in {EffectTypeHDR, EffectTypeLDR}) =>
        /\ lastEnd.draw = PrimaryAttachment(lastEnd.active)
        /\ lastEnd.copied => lastDraw.write = PrimaryAttachment(lastEnd.active)

\* The frame of the blur / tonemap / vignette scenario has been blitted.
ScenarioDisplayed ==
    /\ hdr
    /\ effects \in ScenarioChains
    /\ displayed # <<>>

\* C6: on an HDR camera with the chain [HDR effect of 3 sub-passes,
\* Tonemapper, LDR effect of 1 sub-pass], the image in color attachment 0
\* that endRender blits is the output of the last effect's sub-pass, computed
\* from the Tonemapper's output, computed from the output of the first
\* effect's last sub-pass.
C6_ScenarioOutput ==
    ScenarioDisplayed =>
        /\ Len(displayed) >= 3
        /\ displayed[Len(displayed)] = <<"fx", 3, 0>>
        /\ displayed[Len(displayed) - 1] = <<"fx", 2, effects[2].n - 1>>
        /\ displayed[Len(displayed) - 2] = <<"fx", 1, 2>>

\* C7: on an HDR camera whose chain has one Tonemapper, no sub-pass and no
\* copy pass of an effect after the Tonemapper reads HDR1.
C7_NoHDR1AfterTonemapper ==
    (hdr /\ Cardinality(Tonemappers) = 1 /\ lastDraw.kind # "none"
         /\ \E j \in Tonemappers : j < lastDraw.fx) =>
        lastDraw.read # CameraTextureHDR1

C7_Witness ==
    /\ hdr
    /\ Cardinality(Tonemappers) = 1
    /\ lastDraw.kind = "copy"
    /\ effects[lastDraw.fx].type = EffectTypeHDR
    /\ \E j \in Tonemappers : j < lastDraw.fx

\* The Drawables among the components of the scene.
SceneDrawables == {c \in Range(scene) : IsDrawable(c)}

\* The caches partition the Drawables of the scene by deferred support.
Partitioned ==
    /\ Range(forwardCache) \cup Range(deferredCache) = SceneDrawables
    /\ Range(forwardCache) \cap Range(deferredCache) = {}
    /\ Len(forwardCache) + Len(deferredCache) = Cardinality(SceneDrawables)
    /\ \A c \in SceneDrawables :
          c \in Range(deferredCache) <=>
              (renderPath = RenderPathDeferred /\ SupportsDeferred(c))
    /\ renderPath = RenderPathForward => deferredCache = <<>>

\* C8: after every OnSceneGraphUpdate, whatever the caches held before, every
\* Drawable of the scene is in exactly one of forwardCache and deferredCache,
\* nothing else is in either, and a Drawable is in deferredCache iff the
\* render path is Deferred and it reports SupportsDeferred.
C8_CachesPartitionScene == [][OnSceneGraphUpdate => Partitioned']_vars

C8_Witness ==
    /\ renderPath = RenderPathDeferred
    /\ Partitioned
    /\ Len(deferredCache) >= 1
    /\ Len(forwardCache) >= 1
    /\ Len(scene) > Len(forwardCache) + Len(deferredCache)

\* The passes of a frame, in order.
FramePasses ==
    <<"ClearBackground">> \o (IF DeferredRuns THEN <<"DeferredPass">> ELSE <<>>)
        \o <<"ForwardPass", "EffectChain", "Resolve">>

\* Render has returned and the frame's record is still there.
FrameDone == pc = "idle" /\ displayed # <<>>

\* C9: the passes a Render call has entered so far are a prefix of
\* ClearBackground, DeferredPass (only when the render path is Deferred and
\* the deferred shader is present), ForwardPass, EffectChain, Resolve, and
\* when Render returns they are all of it: each pass once, in that order.
C9_PassOrder ==
    /\ Len(passes) <= Len(FramePasses)
    /\ passes = SubSeq(FramePasses, 1, Len(passes))
    /\ FrameDone => passes = FramePasses

C9_Witness ==
    /\ FrameDone
    /\ DeferredRuns
    /\ passes = FramePasses
    /\ Len(passes) = 5

\* C10: Render (every step of it), Update and Resize, and the scene and the
\* window changing, leave forwardCache and deferredCache as they are: only
\* OnSceneGraphUpdate changes them.
C10_CachesChangeOnlyOnUpdate ==
    [][(Frame \/ Update \/ Resize \/ SceneAdd \/ SceneRemove \/ HandleEvents)
          => UNCHANGED <<forwardCache, deferredCache>>]_vars

C10_Witness ==
    /\ pc = "endRender"
    /\ windowResized
    /\ fbSize = windowRes
    /\ forwardCache # <<>>
    /\ Range(forwardCache) \cup Range(deferredCache) # SceneDrawables


\* The color buffers of the camera.
ColorTextures == Textures(hdr) \ {CameraTextureDepth}

\* C11: with clear mode Nothing, clearBackground (the clearing part of
\* startRender) leaves every color buffer, the depth buffer and the GL clear
\* color as they were; with clear mode Depth the depth attachment is cleared
\* and every color buffer is as it was.
C11_NothingAndDepthKeepColor ==
    [][startRender =>
          /\ clearMode = ClearModeNothing =>
                (tex' = tex /\ glClearColor' = glClearColor)
          /\ clearMode = ClearModeDepth =>
                /\ \A t \in ColorTextures : tex'[t] = tex[t]
                /\ tex'[CameraTextureDepth] = << <<"clear", "depth">> >>]_vars

C11_Witness ==
    /\ pc = After("startRender")
    /\ clearMode = ClearModeNothing
    /\ glClearColor = <<0, 0, 0, 1>>
    /\ \A t \in Textures(hdr) : tex[t] = Prev(t)

\* C12: on an HDR camera with clear mode Color, clear color (0,0,0,1), render
\* path Forward, no effects and empty caches, the image of color attachment 0
\* that endRender blits is the clear color, black, whatever the buffers held
\* before the frame.
C12_SolidBlack ==
    (/\ hdr
     /\ clearMode = ClearModeColor
     /\ clearColor = <<0, 0, 0, 1>>
     /\ renderPath = RenderPathForward
     /\ effects = <<>>
     /\ forwardCache = <<>>
     /\ deferredCache = <<>>
     /\ FrameDone) =>
        displayed = << <<"clear", <<0, 0, 0, 1>>>> >>


\* What Resize leaves for a window of resolution res: framebuffer and, on the
\* Deferred path, G-buffer of that size, the aspect ratio width/height, and a
\* perspective projection of that aspect ratio.
Resized(res) ==
    /\ fbSize' = res
    /\ renderPath = RenderPathDeferred => gbSize' = res
    /\ aspectRatio' = <<res[1], res[2]>>
    /\ projectionMatrix'[1] = "Perspective"
    /\ projectionMatrix'[3] = <<res[1], res[2]>>

\* C13: after Resize the framebuffer has the window's resolution, so has the
\* G-buffer on the Deferred path, the aspect ratio is the window's width over
\* its height, and the projection matrix is computed from that new aspect
\* ratio; Update resizes in a frame in which the window was resized and
\* in no other.
C13_ResizeFollowsWindow ==
    [][/\ Resize => Resized(windowRes)
       /\ Update => IF windowResized
                    THEN Resized(windowRes)
                    ELSE UNCHANGED <<aspectRatio, fbSize, gbSize, projectionMatrix>>]_vars

C13_Witness ==
    /\ pc = "idle"
    /\ windowResized
    /\ windowRes = <<16, 9>>
    /\ renderPath = RenderPathDeferred
    /\ fbSize = <<16, 9>>
    /\ gbSize = <<16, 9>>
    /\ aspectRatio = <<16, 9>>
    /\ projectionMatrix = <<"Perspective", "fov", <<16, 9>>, "nearClip", "farClip">>


\* C19: an effect of the HDR or LDR domain whose Render makes no EffectPass
\* call is a no-op: endEffectPass, which follows startEffectPass and the
\* empty Render, leaves the primary buffer of the active domain holding what
\* it held before the effect.
C19_ZeroPassNoOp ==
    [][(/\ endEffectPass
        /\ effects[fx].n = 0
        /\ effectActiveType \in {EffectTypeHDR, EffectTypeLDR}) =>
          tex'[PrimaryTexture(effectActiveType)] = tex[PrimaryTexture(effectActiveType)]]_vars


\* The positions inside renderEffects of a non-empty chain: before an
\* effect's startEffectPass, inside its Render (where the sub-passes are
\* issued and from where endEffectPass runs the copy pass), and after the
\* last endEffectPass.
InEffects == pc \in {"startEffectPass", "effect.Render", "renderEffects.return"}

\* C20: with a non-empty chain the depth test and the depth writes are off
\* during every effect's Render, sub-pass and copy pass and both are on again
\* when renderEffects has returned; depth writes are on when renderDeferred
\* has returned, and on at the end of every Render.
C20_DepthStateRestored ==
    /\ InEffects => (~depthMask /\ ~depthTest)
    /\ (pc = After("renderEffects") /\ Len(effects) > 0) => (depthMask /\ depthTest)
    /\ pc = After("renderDeferred") => depthMask
    /\ FrameDone => depthMask

C20_Witness ==
    /\ pc = After("renderEffects")
    /\ Len(effects) > 0
    /\ DeferredRuns
    /\ lastEnd.fx = Len(effects)
    /\ depthMask
    /\ depthTest


\* C14: under every interleaving of Assign and Release calls of several
\* threads, a thread is inside the table code only while it holds the mutex,
\* zero is never a key of the table (no assigned ID is zero), and, whenever
\* the mutex is free, every key of the table is the ID of the object it maps
\* to and no two objects in the table have the same ID.
C14_AllocatorSafe ==
    /\ \A t \in Threads : ipc[t] # "idle" => mu = t
    /\ 0 \notin DOMAIN objects
    /\ mu = 0 =>
          /\ \A id \in DOMAIN objects : objID[objects[id]] = id
          /\ \A o1, o2 \in Live : o1 # o2 => objID[o1] # objID[o2]

\* The calls of one iteration of the frame loop that makes k fixed updates.
ExpectedLog(k) ==
    <<"FrameStart", "OnUpdate">> \o [i \in 1..k |-> "OnFixedUpdate"]
        \o <<"ClearBuffers", "OnDisplay", "SwapBuffers", "HandleEvents", "FrameEnd">>

\* C15: the calls an iteration of the frame loop has made are at every moment
\* a prefix of FrameStart, OnUpdate, at most maxFrameSkip fixed updates,
\* ClearBuffers, OnDisplay, SwapBuffers, HandleEvents, FrameEnd; when the loop
\* tests its condition and when Run has returned, the last iteration made all
\* of them, and Run has not returned in the middle of an iteration, whether
\* Quit was called or the window asked to close during it.
C15_FramesComplete ==
    /\ \E k \in 0..maxFrameSkip :
          /\ Len(log) <= Len(ExpectedLog(k))
          /\ log = SubSeq(ExpectedLog(k), 1, Len(log))
    /\ apc \in {"Run.test", "Run.returned"} =>
          (log = <<>> \/ \E k \in 0..maxFrameSkip : log = ExpectedLog(k))
    /\ apc = "Run.returned" => ~inFrame

C15_Witness ==
    /\ apc = "Run.returned"
    /\ quitAt = "frame"
    /\ log = ExpectedLog(maxFrameSkip)

\* The positions of the main goroutine after Setup has returned nil and
\* before Teardown.
AfterSetup ==
    {"ready", "Run.test", "Run.shouldClose", "FrameStart", "OnUpdate", "OnFixedUpdate",
     "ClearBuffers", "OnDisplay", "SwapBuffers", "HandleEvents", "FrameEnd",
     "Run.returned"}

Reverse(q) == [i \in 1..Len(q) |-> q[Len(q) - i + 1]]

\* C16: Setup calls Setup on the registered systems in the order of their
\* registration (on all of them when it returns nil, up to the first one
\* that fails otherwise), and Teardown calls Teardown on them in the reverse
\* of that order, on each system once.
C16_SetupAndTeardownOrder ==
    /\ Len(setupLog) <= Len(systems)
    /\ setupLog = SubSeq(systems, 1, Len(setupLog))
    /\ apc \in AfterSetup => setupLog = systems
    /\ Len(teardownLog) <= Len(systems)
    /\ teardownLog = SubSeq(Reverse(systems), 1, Len(teardownLog))
    /\ apc = "done" => teardownLog = Reverse(systems)

C16_Witness ==
    /\ apc = "done"
    /\ Len(systems) = Len(CoreSystems) + 2
    /\ systems[1].inst # 0
    /\ systems[Len(systems)].inst # 0
    /\ setupLog = systems
    /\ teardownLog[1] = systems[Len(systems)]

\* The number of registered systems of a name.
NameCount(name) == Cardinality({i \in 1..Len(systems) : systems[i].name = name})

\* C17: no two systems of the list have the same name; System(name) returns
\* the one system of that name, or ErrSystemNotFound when there is none; a
\* RegisterSystem call either appends a system whose name was not in the
\* list, or panics with ErrSystemExists of a name that is in the list and
\* leaves the list as it was.
C17_UniqueNames ==
    /\ [](\A name \in SystemNames :
            /\ NameCount(name) <= 1
            /\ NameCount(name) = 0 =>
                  System(systems, name) =
                      [system |-> NoSystem, err |-> ErrSystemNotFound(name)]
            /\ NameCount(name) = 1 =>
                  /\ System(systems, name).err = NoError
                  /\ System(systems, name).system.name = name
                  /\ System(systems, name).system \in Range(systems))
    /\ [][RegisterSystem =>
            \/ /\ appErr' = NoError
               /\ Len(systems') = Len(systems) + 1
               /\ SubSeq(systems', 1, Len(systems)) = systems
               /\ NameCount(systems'[Len(systems')].name) = 0
            \/ /\ systems' = systems
               /\ \E name \in SystemNames :
                     /\ NameCount(name) = 1
                     /\ appErr' = ErrSystemExists(name)]_vars

C17_Witness ==
    /\ apc = "PreSetupFunc"
    /\ appErr = ErrSystemExists("time")
    /\ Len(systems) = Len(CoreSystems) + 2

\* C18: once Quit has been called while Run executes, from a component
\* inside the frame or from the signal-handler goroutine at any point of the
\* loop, the running flag is false for as long as Run executes and no further
\* iteration of the loop starts.
C18_QuitStops ==
    quitAt \in {"idle", "gap", "frame"} => (~running /\ ~lateFrame)


\* The Draw calls of the two passes as the claim has them: every entry of
\* the cache once, in cache order, seeing the path of the pass.
DeferredDraws == [i \in 1..Len(deferredCache) |-> <<deferredCache[i], RenderPathDeferred>>]
ForwardDraws == [i \in 1..Len(forwardCache) |-> <<forwardCache[i], RenderPathForward>>]

\* C21: the Draw calls of a frame are those of the geometry sub-pass, when
\* it has run, on the deferred cache, each seeing ActiveRenderPath Deferred,
\* followed by those of the forward pass, when it has run, on the forward
\* cache, each seeing Forward: every entry once, in cache order; when Render
\* has returned the forward pass has run and ActiveRenderPath is Forward.
C21_DrawsSeeTheirPass ==
    /\ drawCalls =
          (IF "DeferredPass" \in Range(passes) THEN DeferredDraws ELSE <<>>)
              \o (IF "ForwardPass" \in Range(passes) THEN ForwardDraws ELSE <<>>)
    /\ FrameDone =>
          /\ "ForwardPass" \in Range(passes)
          /\ activeRenderPath = RenderPathForward

C21_Witness ==
    /\ FrameDone
    /\ "DeferredPass" \in Range(passes)
    /\ deferredCache # <<>>
    /\ forwardCache # <<>>
    /\ drawCalls = DeferredDraws \o ForwardDraws


\* The HDR textures and the attachment points they are bound to.
HDRTextures == {CameraTextureHDR0, CameraTextureHDR1}
HDRAttachments == {COLOR_ATTACHMENT1, COLOR_ATTACHMENT3}

\* C22: on a camera with the HDR flag off there are no HDR textures and no
\* color attachments 1 and 3, and at no step of Render, for a chain of
\* effects of any type, is an HDR texture bound for reading or an HDR
\* attachment selected as draw target; on a camera with the flag on both
\* HDR textures exist.
C22_HDROnlyOnHDRCamera ==
    /\ ~hdr =>
          /\ DOMAIN tex \cap HDRTextures = {}
          /\ Attachments(hdr) \cap HDRAttachments = {}
          /\ readTex \notin HDRTextures
          /\ drawBuf \notin HDRAttachments
          /\ lastDraw.kind # "none" =>
                /\ lastDraw.read \notin HDRTextures
                /\ lastDraw.write \notin HDRAttachments
    /\ hdr => HDRTextures \subseteq DOMAIN tex

C22_Witness ==
    /\ ~hdr
    /\ lastDraw.kind = "copy"
    /\ effects[lastDraw.fx].type = EffectTypeTonemapper
    /\ lastDraw.read = CameraTextureLDR1
    /\ lastDraw.write = COLOR_ATTACHMENT0


\* Assign returns the error err to thread t: nothing of the allocator or of
\* the objects is written, and what is left of the call is the deferred
\* Unlock.
AssignFails(t, err) ==
    /\ ret'[t] = err
    /\ ipc'[t] = "Unlock"
    /\ UNCHANGED <<objects, next, objID, mu>>

\* C23: Assign of a nil object returns ErrAssignNilObject and Assign of an
\* object whose ID is not 0 returns ErrObjectAlreadyAssigned, both leaving
\* the table, the counter and the object's ID as they were and going on to
\* the deferred Unlock, which frees the mutex; an Assign that succeeds adds
\* one entry to the table, under a key that was not in it, changes no other
\* entry, and sets the object's ID to that key before it returns nil.
C23_AssignReturns ==
    [][\A t \in Threads :
          /\ (AssignCheck(t) /\ arg[t] = nil) =>
                AssignFails(t, <<"ErrAssignNilObject">>)
          /\ (AssignCheck(t) /\ arg[t] # nil /\ objID[arg[t]] # 0) =>
                AssignFails(t, <<"ErrObjectAlreadyAssigned">>)
          /\ Unlock(t) => (mu = t /\ mu' = 0)
          /\ AssignStore(t) =>
                /\ local[t] \notin DOMAIN objects
                /\ DOMAIN objects' = DOMAIN objects \cup {local[t]}
                /\ objects'[local[t]] = arg[t]
                /\ \A id \in DOMAIN objects : objects'[id] = objects[id]
          /\ AssignSetID(t) =>
                /\ objects[local[t]] = arg[t]
                /\ objID'[arg[t]] = local[t]
                /\ \A o \in Objects \ {arg[t]} : objID'[o] = objID[o]
                /\ ret'[t] = <<"nil">>
                /\ ipc'[t] = "Unlock"]_vars

C23_Witness ==
    \E t \in Threads :
        /\ ipc[t] = "Unlock"
        /\ ret[t] = <<"ErrObjectAlreadyAssigned">>
        /\ arg[t] \in Live
        /\ objects[objID[arg[t]]] = arg[t]


\* C24: nextID terminates and returns an ID that is not zero and not a key
\* of the table: a thread inside nextID can always take a step that changes
\* the state, also when the counter has wrapped and next + 1 is the ID of a
\* live object, and the ID Assign is about to store is not zero and not a
\* key; so no Assign call holds the mutex forever.
C24_NextIDTerminates ==
    \A t \in Threads :
        /\ ipc[t] \in {"nextID", "nextID.loop"} =>
              ENABLED <<nextID(t) \/ nextIDLoop(t)>>_vars
        /\ ipc[t] = "Assign.store" =>
              (local[t] # 0 /\ local[t] \notin DOMAIN objects)

====
